---- MODULE Spec2Model ----
(***************************************************************************)
(* Verification model of the sanipasse health-pass checker:                *)
(*   - src/lib/digital_green_certificate.ts : parse() and its stages       *)
(*   - src/routes/api/validate_pass.ts      : the POST handler             *)
(*   - src/lib/ticket.ts, routes/_Certificate.svelte : ticket printing     *)
(*                                                                         *)
(* Nullable / optional JavaScript values are modelled as sequences of      *)
(* length 0 (undefined / null / absent) or 1 (present).  Strings that the  *)
(* code transforms are sequences of one-character strings.                 *)
(***************************************************************************)
EXTENDS Integers, Sequences, FiniteSets, TLC

\* ------------------------------------------------------------------ bounds
\* Largest value of the clock (seconds) and of the timestamps in documents.
MaxTime == 3
\* Largest number of API requests recorded in the usage collection.
MaxRequests == 1
\* Number of API requests handled concurrently.
MaxCalls == 2

\* --------------------------------------------------------- optional values
None == <<>>
Some(x) == <<x>>
IsSome(o) == Len(o) = 1
Get(o) == o[1]
Opt(S) == {None} \cup {Some(x) : x \in S}

Time == 0..MaxTime

\* ------------------------------------------------------------- constants
DGC_PREFIX == "HC1:"

COSE_HEADERS == [KID |-> 4]

CWT_CLAIMS == [ISSUER |-> 1, EXPIRATION |-> 4, ISSUED_AT |-> 6, HCERT |-> -260]

\* The bundled trust store (assets/dccCerts.json): key identifier -> signing
\* certificate.  "kidA" is valid during the whole modelled time, "kidB" only
\* during [1, MaxTime - 1].
DCCCerts ==
    [kid \in {"kidA", "kidB"} |->
        IF kid = "kidA"
        THEN [subject |-> "DSC A", publicKey |-> "keyA",
              notBefore |-> 0, notAfter |-> MaxTime]
        ELSE [subject |-> "DSC B", publicKey |-> "keyB",
              notBefore |-> 1, notAfter |-> MaxTime - 1]]

\* API keys accepted by the remote API (process.env.ACCEPTED_KEYS).
ACCEPTED_KEYS == {"key1"}

\* ---------------------------------------------------------------- strings
\* String.prototype.replace(/</g, ' ')
RECURSIVE replaceFiller(_)
replaceFiller(s) ==
    IF s = <<>> THEN <<>>
    ELSE <<IF Head(s) = "<" THEN " " ELSE Head(s)>> \o replaceFiller(Tail(s))

\* String.prototype.toLocaleLowerCase() on the modelled alphabet
lowerChar(c) == IF c = "A" THEN "a" ELSE IF c = "B" THEN "b" ELSE c

RECURSIVE toLocaleLowerCase(_)
toLocaleLowerCase(s) ==
    IF s = <<>> THEN <<>>
    ELSE <<lowerChar(Head(s))>> \o toLocaleLowerCase(Tail(s))

\* JavaScript truthiness of an optional string: undefined and '' are falsy.
TruthyStr(o) == IsSome(o) /\ Get(o) # <<>>

\* JavaScript truthiness of an optional number: undefined and 0 are falsy.
TruthyNum(o) == IsSome(o) /\ Get(o) # 0

\* ----------------------------------------------------------------- errors
\* A thrown value: the class of the error object and its message.
NewError(class, text) == [class |-> class, message |-> text]

\* Messages of the errors thrown by the imported libraries (base45-ts,
\* cbor-web, cosette, WebCrypto): the source does not fix them, and an error
\* object may carry an empty message.
LibMessages == {"", "library error"}

\* Result of a stage: either a value or a thrown error, with the operations
\* the stage performed before it returned or threw.
Ok(v, ops) == [err |-> None, val |-> Some(v), ops |-> ops]
Throw(e, ops) == [err |-> Some(e), val |-> None, ops |-> ops]
Failed(r) == IsSome(r.err)

\* ------------------------------------------------------------- documents
\* Buffer.from(rawKid).toString('base64'): raw key identifier bytes -> the
\* string that indexes the trust store.
RawKids == {"rawA", "rawB", "rawX"}
toBase64(rawKid) ==
    CASE rawKid = "rawA" -> "kidA"
      [] rawKid = "rawB" -> "kidB"
      [] OTHER -> "kidX"

\* The private key an issuer holding the certificate of rawKid signs with
\* (a key pair is named by one id).
SignerKey(kidOpt) ==
    IF IsSome(kidOpt) /\ toBase64(Get(kidOpt)) \in DOMAIN DCCCerts
    THEN DCCCerts[toBase64(Get(kidOpt))].publicKey
    ELSE "keyX"

\* Health certificate bodies.
Names == {<<>>, <<"A", "B">>}
TransNames == {<<>>, <<"A", "<", "B">>}
VEntry == [dt |-> 1, vp |-> "1119349007", dn |-> 2, sd |-> 2]
TEntries == {[sc |-> 1, tr |-> "260415000"], [sc |-> 1, tr |-> "260373001"]}
REntry == [fr |-> 1]

GoodNam == [gn |-> Some(<<"A", "B">>), gnt |-> Some(<<"A", "<", "B">>),
            fn |-> Some(<<"A", "B">>), fnt |-> Some(<<"A", "<", "B">>)]

EmptyHCert == [nam |-> None, dob |-> None, v |-> None, t |-> None, r |-> None]

GoodHCert == [nam |-> Some(GoodNam), dob |-> Some(1),
              v |-> Some(<<VEntry>>), t |-> None, r |-> None]

\* Bodies that differ in the name fields only.
HCertsNames ==
    {[GoodHCert EXCEPT !.nam = Some([gn |-> gn, gnt |-> gnt, fn |-> fn, fnt |-> fnt])] :
        gn \in Opt(Names), gnt \in Opt(TransNames),
        fn \in Opt(Names), fnt \in Opt(TransNames)}

\* Bodies that differ in the three entry lists only.
HCertsLists ==
    {[GoodHCert EXCEPT !.v = v, !.t = t, !.r = r] :
        v \in {None, Some(<<>>), Some(<<VEntry>>)},
        t \in {None, Some(<<>>)} \cup {Some(<<e>>) : e \in TEntries},
        r \in {None, Some(<<>>), Some(<<REntry>>)}}

SigModes == {"valid", "tampered", "wrongkey"}

\* A scanned document: prefix, base45 text (valid or not) of an optionally
\* compressed COSE structure [phdrs, uhdrs, payload, signers].
MkDoc(head, valid45, zlib, shape, kid, iat, exp, hcert, sig) ==
    LET phdrs == [kid |-> kid]
        payload == [iss |-> Some(<<"F", "R">>), iat |-> iat, exp |-> exp, hcert |-> hcert]
        signed == IF sig = "tampered"
                  THEN [phdrs |-> phdrs, payload |-> [payload EXCEPT !.iss = Some(<<"X", "X">>)]]
                  ELSE [phdrs |-> phdrs, payload |-> payload]
        key == IF sig = "wrongkey" THEN "rogue" ELSE SignerKey(kid)
    IN [head |-> head, valid45 |-> valid45,
        bytes |-> [zlib |-> zlib,
                   data |-> [shape |-> shape, phdrs |-> phdrs, payload |-> payload,
                             signers |-> [key |-> key, over |-> signed]]]]

\* Documents that differ in transport and envelope.
DocsTransport ==
    {MkDoc(head, valid45, zlib, shape, v[1], v[2], v[3], v[4], v[5]) :
        head \in {"HC1:", "DC04", ""}, valid45 \in BOOLEAN, zlib \in BOOLEAN,
        shape \in {"array4", "array3", "garbage"},
        v \in {<<Some("rawA"), Some(1), Some(MaxTime), Some(GoodHCert), "valid">>,
               <<None, Some(MaxTime), Some(1), None, "wrongkey">>}}

\* Documents that differ in what the verification stages look at.
DocsVerify ==
    {MkDoc(DGC_PREFIX, TRUE, TRUE, "array4", kid, iat, exp, hcert, sig) :
        kid \in Opt(RawKids), iat \in Opt(Time), exp \in Opt(Time),
        hcert \in {None, Some(GoodHCert)}, sig \in SigModes}

\* Documents that differ in the health certificate body.
DocsBody ==
    {MkDoc(DGC_PREFIX, TRUE, zlib, "array4", Some("rawA"), None, None, Some(h), "valid") :
        zlib \in BOOLEAN, h \in HCertsNames \cup HCertsLists}

Docs == DocsTransport \cup DocsVerify \cup DocsBody

\* ------------------------------------------------- stages of the pipeline
\* String.prototype.startsWith(DGC_PREFIX)
startsWith(qrCode, prefix) == qrCode.head = prefix

\* base45-ts decode of the text after the prefix: throws on invalid text.
decodeb45(qrCode, msg) ==
    IF qrCode.valid45 THEN Ok(qrCode.bytes, <<"base45">>)
    ELSE Throw(NewError("Error", msg), <<"base45">>)

\* pako inflate: throws when the bytes are not a zlib stream.
inflate(coseData) ==
    IF coseData.zlib THEN Ok([coseData EXCEPT !.zlib = FALSE], <<"inflate">>)
    ELSE Throw(NewError("Error", "incorrect header check"), <<"inflate">>)

extractCoseFromQRCode(qrCode, msg) ==
    IF ~startsWith(qrCode, DGC_PREFIX)
    THEN Throw(NewError("Error", "HCERT must start with HC1:"), <<"prefix">>)
    ELSE LET decoded == decodeb45(qrCode, msg)
         IN IF Failed(decoded)
            THEN Throw(Get(decoded.err), <<"prefix">> \o decoded.ops)
            ELSE LET coseData == Get(decoded.val)
                     inflated == inflate(coseData)
                 IN Ok(IF Failed(inflated) THEN coseData ELSE Get(inflated.val),
                       <<"prefix">> \o decoded.ops \o inflated.ops)

\* The bundled JSON schema (assets/DCC.combined-schema.1.3.0.json) as checked
\* by ajv: the name group with its transliterated surname and the date of
\* birth are required; every other field is optional.
DCCSchemaValid(hcert) ==
    /\ IsSome(hcert.nam)
    /\ IsSome(Get(hcert.nam).fnt)
    /\ IsSome(hcert.dob)

\* cborData.get(claim) || null
orNull(claim) == IF TruthyNum(claim) THEN claim ELSE None

unsafeDGCFromCoseData(rawCoseData, msg) ==
    LET coseData == rawCoseData.data
    IN IF coseData.shape = "garbage"
       THEN Throw(NewError("Error", msg), <<"cbor">>)
       ELSE IF coseData.shape # "array4"
       THEN Throw(NewError("Error", "Unexpected COSE data. DGC is probably invalid."),
                  <<"cbor">>)
       ELSE LET rawKid == coseData.phdrs.kid
                cborData == coseData.payload
            IN IF ~IsSome(rawKid)
               THEN Throw(NewError("Error",
                                   "Cannot find a KID in COSE Data. DGC is probably invalid."),
                          <<"cbor", "kid">>)
               ELSE LET kid == toBase64(Get(rawKid))
                        hcert == IF IsSome(cborData.hcert) THEN Get(cborData.hcert)
                                 ELSE EmptyHCert
                    IN IF ~DCCSchemaValid(hcert)
                       THEN Throw(NewError("Error", "DGC validation failed"),
                                  <<"cbor", "kid", "schema">>)
                       ELSE Ok([hcert |-> hcert,
                                kid |-> kid,
                                issuer |-> IF TruthyStr(cborData.iss) THEN cborData.iss
                                           ELSE None,
                                issuedAt |-> orNull(cborData.iat),
                                expiresAt |-> orNull(cborData.exp)],
                               <<"cbor", "kid", "schema">>)

\* class DgcError and its subclasses: the message is never empty.
DgcError(class, dgc) == [class |-> class, message |-> "Ce certificat est invalide", dgc |-> dgc]

\* Faulty variant: the issuance bound compared with <= instead of <.
verifyDGCClaims_InclusiveBound(dgc, now) ==
    IF IsSome(dgc.issuedAt) /\ now <= Get(dgc.issuedAt)
    THEN Throw(DgcError("DgcIssuedInFutureError", dgc), <<"claims">>)
    ELSE IF IsSome(dgc.expiresAt) /\ Get(dgc.expiresAt) < now
    THEN Throw(DgcError("ExpiredDgcError", dgc), <<"claims">>)
    ELSE Ok(TRUE, <<"claims">>)

verifyDGCClaims(dgc, now) ==
    IF IsSome(dgc.issuedAt) /\ now < Get(dgc.issuedAt)
    THEN Throw(DgcError("DgcIssuedInFutureError", dgc), <<"claims">>)
    ELSE IF IsSome(dgc.expiresAt) /\ Get(dgc.expiresAt) < now
    THEN Throw(DgcError("ExpiredDgcError", dgc), <<"claims">>)
    ELSE Ok(TRUE, <<"claims">>)

\* Faulty variant: the bounds of the validity window taken as exclusive.
findDGCPublicKey_ExclusiveWindow(dgc, now) ==
    IF dgc.kid \notin DOMAIN DCCCerts
    THEN Throw(DgcError("UnknownKidError", dgc), <<"lookup">>)
    ELSE LET x509cert == DCCCerts[dgc.kid]
             certificate == [subject |-> x509cert.subject,
                             notBefore |-> x509cert.notBefore,
                             notAfter |-> x509cert.notAfter]
         IN IF now >= x509cert.notAfter \/ now <= x509cert.notBefore
            THEN Throw(DgcError("InvalidCertificateError", dgc), <<"lookup", "window">>)
            ELSE Ok([certificate |-> certificate, public_key |-> x509cert.publicKey],
                    <<"lookup", "window">>)

findDGCPublicKey(dgc, now) ==
    IF dgc.kid \notin DOMAIN DCCCerts
    THEN Throw(DgcError("UnknownKidError", dgc), <<"lookup">>)
    ELSE LET x509cert == DCCCerts[dgc.kid]
             certificate == [subject |-> x509cert.subject,
                             notBefore |-> x509cert.notBefore,
                             notAfter |-> x509cert.notAfter]
         IN IF now > x509cert.notAfter \/ now < x509cert.notBefore
            THEN Throw(DgcError("InvalidCertificateError", dgc), <<"lookup", "window">>)
            ELSE Ok([certificate |-> certificate, public_key |-> x509cert.publicKey],
                    <<"lookup", "window">>)

\* Faulty variant: the result of the signature check is dropped.
verify_Unchecked(rawCoseData, public_key, msg) == Ok(TRUE, <<"signature">>)

\* cosette verify: the signature must have been made with the private key of
\* public_key over the protected headers and payload of this structure.
verify(rawCoseData, public_key, msg) ==
    LET coseData == rawCoseData.data
    IN IF /\ coseData.signers.key = public_key
          /\ coseData.signers.over = [phdrs |-> coseData.phdrs, payload |-> coseData.payload]
       THEN Ok(TRUE, <<"signature">>)
       ELSE Throw(NewError("Error", msg), <<"signature">>)

\* new Date(x)
Date(x) == [date |-> x]

getCertificateInfo(cert) ==
    LET hcert == cert.hcert
        nam == Get(hcert.nam)
    IN IF ~IsSome(nam.fnt) /\ ~TruthyStr(nam.fn)
       THEN Throw(NewError("TypeError", "Cannot read properties of undefined"),
                  <<"normalize">>)
       ELSE
       LET first_name == IF TruthyStr(nam.gn) THEN Get(nam.gn)
                         ELSE replaceFiller(IF TruthyStr(nam.gnt) THEN Get(nam.gnt)
                                            ELSE <<"-">>)
           last_name == IF TruthyStr(nam.fn) THEN Get(nam.fn)
                        ELSE replaceFiller(Get(nam.fnt))
           date_of_birth == Date(Get(hcert.dob))
       IN IF IsSome(hcert.v) /\ Len(Get(hcert.v)) # 0
          THEN Ok([type |-> "vaccination",
                   vaccination_date |-> Date(Get(hcert.v)[1].dt),
                   prophylactic_agent |-> Get(hcert.v)[1].vp,
                   doses_received |-> Get(hcert.v)[1].dn,
                   doses_expected |-> Get(hcert.v)[1].sd,
                   first_name |-> first_name, last_name |-> last_name,
                   date_of_birth |-> date_of_birth, code |-> cert.code,
                   source |-> [format |-> "dgc", cert |-> cert]],
                  <<"normalize">>)
          ELSE IF IsSome(hcert.t) /\ Len(Get(hcert.t)) # 0
          THEN Ok([type |-> "test",
                   test_date |-> Date(Get(hcert.t)[1].sc),
                   is_negative |-> (Get(hcert.t)[1].tr = "260415000"),
                   first_name |-> first_name, last_name |-> last_name,
                   date_of_birth |-> date_of_birth, code |-> cert.code,
                   source |-> [format |-> "dgc", cert |-> cert]],
                  <<"normalize">>)
          ELSE IF IsSome(hcert.r) /\ Len(Get(hcert.r)) # 0
          THEN Ok([type |-> "test",
                   test_date |-> Date(Get(hcert.r)[1].fr),
                   is_negative |-> FALSE,
                   first_name |-> first_name, last_name |-> last_name,
                   date_of_birth |-> date_of_birth, code |-> cert.code,
                   source |-> [format |-> "dgc", cert |-> cert]],
                  <<"normalize">>)
          ELSE Throw(NewError("Error", "Unsupported or empty certificate"),
                     <<"normalize">>)

\* ------------------------------------------------------------------ state
VARIABLES
    now,          \* the clock, in seconds
    pc,           \* position of the running call
    caller,       \* who started it: "none", "parse", "ui" or "post"
    doc,          \* the document handed to parse
    rawCoseData,  \* parse: result of extractCoseFromQRCode
    unsafe_dgc,   \* parse: result of unsafeDGCFromCoseData
    found,        \* verifyDGC: result of findDGCPublicKey
    dgc,          \* parse: result of verifyDGC
    info,         \* the CommonCertificateInfo parse resolved with
    error,        \* the error parse rejected with
    steps,        \* the operations performed by the running call, in order
    tClaims,      \* the clock read by verifyDGCClaims
    tKey,         \* the clock read by findDGCPublicKey
    body,         \* the body of the API request being handled
    response,     \* the response of the API handler
    usage,        \* number of records in the ApiKeys collection
    ticket,       \* the printing window and the arguments of printTicket
    calls,        \* concurrent API requests: the state of each one
    heap,         \* objects the concurrent requests can reach
    overlapped    \* two concurrent requests were in flight at the same time

vars == <<now, pc, caller, doc, rawCoseData, unsafe_dgc, found, dgc, info, error,
          steps, tClaims, tKey, body, response, usage, ticket, calls, heap, overlapped>>

callVars == <<doc, rawCoseData, unsafe_dgc, found, dgc, info, error, steps, tClaims, tKey>>
apiVars == <<body, response>>

NoTicket == [args |-> None, opened |-> FALSE, title |-> None, html |-> None,
             printed |-> FALSE, closed |-> FALSE, thrown |-> None]

\* Concurrent requests: their names, the documents they carry, and the
\* state each one starts from.
Procs == 1..MaxCalls

DocsConc ==
    {MkDoc(DGC_PREFIX, TRUE, TRUE, "array4", Some("rawA"), None, None, Some(GoodHCert), "valid"),
     MkDoc(DGC_PREFIX, TRUE, TRUE, "array4", Some("rawB"), None, Some(1), Some(GoodHCert), "valid"),
     MkDoc(DGC_PREFIX, TRUE, TRUE, "array4", Some("rawA"), None, None, Some(GoodHCert), "tampered"),
     MkDoc(DGC_PREFIX, TRUE, TRUE, "array4", Some("rawX"), Some(1), None, Some(GoodHCert), "valid")}

IdleCall == [pc |-> "idle", doc |-> None, rawCoseData |-> None, unsafe_dgc |-> None,
             found |-> None, dgc |-> None, info |-> None, error |-> None,
             response |-> None]

\* The module-level objects every request reaches (the trust store and the
\* schema), the Ajv instances, and the ApiKeys collection.
HeapInit == [certs |-> DCCCerts, schema |-> "DCC.combined-schema.1.3.0",
             ajvs |-> [i \in Procs |-> {}], usage |-> 0]

concVars == <<calls, heap, overlapped>>
seqVars == <<pc, caller, doc, rawCoseData, unsafe_dgc, found, dgc, info, error,
             steps, tClaims, tKey, body, response, usage, ticket>>

Init ==
    /\ calls = [p \in Procs |-> IdleCall]
    /\ heap = HeapInit
    /\ overlapped = FALSE
    /\ now = 0
    /\ pc = "idle"
    /\ caller = "none"
    /\ doc = None
    /\ rawCoseData = None
    /\ unsafe_dgc = None
    /\ found = None
    /\ dgc = None
    /\ info = None
    /\ error = None
    /\ steps = <<>>
    /\ tClaims = None
    /\ tKey = None
    /\ body = None
    /\ response = None
    /\ usage = 0
    /\ ticket = NoTicket

\* Time passes.  The clock is only read by verifyDGCClaims and
\* findDGCPublicKey, so it is advanced between calls and before these reads.
Tick ==
    /\ pc \in {"idle", "claims", "findKey"}
    /\ now < MaxTime
    /\ now' = now + 1
    /\ UNCHANGED <<pc, caller, callVars, apiVars, usage, ticket>>
    /\ UNCHANGED concVars

\* --------------------------------------------------------------- parse()
\* A stage threw: parse rejects with that error.
Reject(r) ==
    /\ pc' = "error"
    /\ error' = r.err
    /\ steps' = steps \o r.ops

\* A direct call of the exported parse(doc).
CallParse ==
    /\ pc = "idle"
    /\ \E d \in Docs, c \in {"parse", "ui"} :
        /\ doc' = Some(d)
        /\ caller' = c
    /\ pc' = "extract"
    /\ UNCHANGED <<now, rawCoseData, unsafe_dgc, found, dgc, info, error, steps,
                   tClaims, tKey, apiVars, usage, ticket>>
    /\ UNCHANGED concVars

\* const rawCoseData = await extractCoseFromQRCode(doc)
Extract ==
    /\ pc = "extract"
    /\ \E msg \in LibMessages :
        LET r == extractCoseFromQRCode(Get(doc), msg)
        IN \/ /\ Failed(r)
              /\ Reject(r)
              /\ UNCHANGED rawCoseData
           \/ /\ ~Failed(r)
              /\ rawCoseData' = r.val
              /\ steps' = steps \o r.ops
              /\ pc' = "decode"
              /\ UNCHANGED error
    /\ UNCHANGED <<now, caller, doc, unsafe_dgc, found, dgc, info, tClaims, tKey,
                   apiVars, usage, ticket>>
    /\ UNCHANGED concVars

\* const unsafe_dgc = await unsafeDGCFromCoseData(rawCoseData)
Decode ==
    /\ pc = "decode"
    /\ \E msg \in LibMessages :
        LET r == unsafeDGCFromCoseData(Get(rawCoseData), msg)
        IN \/ /\ Failed(r)
              /\ Reject(r)
              /\ UNCHANGED unsafe_dgc
           \/ /\ ~Failed(r)
              /\ unsafe_dgc' = r.val
              /\ steps' = steps \o r.ops
              /\ pc' = "claims"
              /\ UNCHANGED error
    /\ UNCHANGED <<now, caller, doc, rawCoseData, found, dgc, info, tClaims, tKey,
                   apiVars, usage, ticket>>
    /\ UNCHANGED concVars

\* verifyDGC: await verifyDGCClaims(dgc)
Claims ==
    /\ pc = "claims"
    /\ tClaims' = Some(now)
    /\ LET r == verifyDGCClaims(Get(unsafe_dgc), now)
       IN \/ /\ Failed(r)
             /\ Reject(r)
          \/ /\ ~Failed(r)
             /\ steps' = steps \o r.ops
             /\ pc' = "findKey"
             /\ UNCHANGED error
    /\ UNCHANGED <<now, caller, doc, rawCoseData, unsafe_dgc, found, dgc, info, tKey,
                   apiVars, usage, ticket>>
    /\ UNCHANGED concVars

\* verifyDGC: const { certificate, public_key } = await findDGCPublicKey(dgc)
FindKey ==
    /\ pc = "findKey"
    /\ tKey' = Some(now)
    /\ LET r == findDGCPublicKey(Get(unsafe_dgc), now)
       IN \/ /\ Failed(r)
             /\ Reject(r)
             /\ UNCHANGED found
          \/ /\ ~Failed(r)
             /\ found' = r.val
             /\ steps' = steps \o r.ops
             /\ pc' = "verify"
             /\ UNCHANGED error
    /\ UNCHANGED <<now, caller, doc, rawCoseData, unsafe_dgc, dgc, info, tClaims,
                   apiVars, usage, ticket>>
    /\ UNCHANGED concVars

\* verifyDGC: await verify(rawCoseData, { key: public_key });
\*            return { ...dgc, certificate, code }
VerifySignature ==
    /\ pc = "verify"
    /\ \E msg \in LibMessages :
        LET r == verify(Get(rawCoseData), Get(found).public_key, msg)
            u == Get(unsafe_dgc)
        IN \/ /\ Failed(r)
              /\ Reject(r)
              /\ UNCHANGED dgc
           \/ /\ ~Failed(r)
              /\ dgc' = Some([hcert |-> u.hcert, kid |-> u.kid, issuer |-> u.issuer,
                              issuedAt |-> u.issuedAt, expiresAt |-> u.expiresAt,
                              certificate |-> Get(found).certificate,
                              code |-> Get(doc)])
              /\ steps' = steps \o r.ops
              /\ pc' = "normalize"
              /\ UNCHANGED error
    /\ UNCHANGED <<now, caller, doc, rawCoseData, unsafe_dgc, found, info, tClaims, tKey,
                   apiVars, usage, ticket>>
    /\ UNCHANGED concVars

\* return getCertificateInfo(dgc)
Normalize ==
    /\ pc = "normalize"
    /\ LET r == getCertificateInfo(Get(dgc))
       IN \/ /\ Failed(r)
             /\ Reject(r)
             /\ UNCHANGED info
          \/ /\ ~Failed(r)
             /\ info' = r.val
             /\ steps' = steps \o r.ops
             /\ pc' = "done"
             /\ UNCHANGED error
    /\ UNCHANGED <<now, caller, doc, rawCoseData, unsafe_dgc, found, dgc, tClaims, tKey,
                   apiVars, usage, ticket>>
    /\ UNCHANGED concVars

\* ------------------------------------------------ routes/api/validate_pass
Keys == {"", "key1", "key2"}
Bodies == [code : Opt(Docs), key : Keys]

\* findCertificateError(parsed): an optional validity problem of a record.
Problems == Opt({"Certificat non valide"})

\* Lines 38-55 of the handler: outcome is what parse_any settled with,
\* problem what findCertificateError returns for a record.
postBody(outcome, problem) ==
    LET person == IF Failed(outcome) THEN None
                  ELSE Some([first_name |-> Get(outcome.val).first_name,
                             last_name |-> Get(outcome.val).last_name,
                             date_of_birth |-> Get(outcome.val).date_of_birth])
        err == IF Failed(outcome) THEN Some(Get(outcome.err).message) ELSE problem
        validated == ~(IsSome(err) /\ Get(err) # "")
    IN [status |-> 200, validated |-> Some(validated), error |-> err, person |-> person]

\* The handler up to the call of parse_any (lines 19-36).
Post ==
    /\ pc = "idle"
    /\ \E b \in Bodies :
        /\ body' = Some(b)
        /\ \/ /\ ~IsSome(b.code) \/ b.key = ""
              /\ response' = Some([status |-> 400, validated |-> None,
                                   error |-> Some("Expected JSON body parameters"),
                                   person |-> None])
              /\ pc' = "responded"
              /\ UNCHANGED <<usage, doc>>
           \/ /\ IsSome(b.code) /\ b.key # ""
              /\ b.key \notin ACCEPTED_KEYS
              /\ response' = Some([status |-> 403, validated |-> None,
                                   error |-> Some("Invalid API key"),
                                   person |-> None])
              /\ pc' = "responded"
              /\ UNCHANGED <<usage, doc>>
           \/ /\ IsSome(b.code) /\ b.key # ""
              /\ b.key \in ACCEPTED_KEYS
              /\ usage < MaxRequests
              /\ usage' = usage + 1
              /\ doc' = b.code
              /\ pc' = "parse_any"
              /\ UNCHANGED response
    /\ caller' = "post"
    /\ UNCHANGED <<now, rawCoseData, unsafe_dgc, found, dgc, info, error, steps,
                   tClaims, tKey, ticket>>
    /\ UNCHANGED concVars

\* parse_any of lib/detect_certificate: documents with the DGC prefix go to
\* parse; the others are handed to the parser of the other format, which
\* rejects or resolves with a record.
FormatBInfo(d) ==
    [type |-> "test", test_date |-> Date(1), is_negative |-> TRUE,
     first_name |-> <<"A">>, last_name |-> <<"B">>, date_of_birth |-> Date(1),
     code |-> d, source |-> [format |-> "2ddoc", cert |-> d]]

parse_any ==
    /\ pc = "parse_any"
    /\ \/ /\ startsWith(Get(doc), DGC_PREFIX)
          /\ pc' = "extract"
          /\ UNCHANGED <<info, error>>
       \/ /\ ~startsWith(Get(doc), DGC_PREFIX)
          /\ Get(doc).head = "DC04"
          /\ pc' = "done"
          /\ info' = Some(FormatBInfo(Get(doc)))
          /\ UNCHANGED error
       \/ /\ ~startsWith(Get(doc), DGC_PREFIX)
          /\ pc' = "error"
          /\ error' = Some(NewError("Error", "Format de certificat invalide"))
          /\ UNCHANGED info
    /\ UNCHANGED <<now, caller, doc, rawCoseData, unsafe_dgc, found, dgc, steps,
                   tClaims, tKey, apiVars, usage, ticket>>
    /\ UNCHANGED concVars

\* The handler after parse_any settled (lines 43-55).
PostRespond ==
    /\ caller = "post"
    /\ \/ /\ pc = "done"
          /\ \E problem \in Problems :
                response' = Some(postBody(Ok(Get(info), <<>>), problem))
       \/ /\ pc = "error"
          /\ response' = Some(postBody(Throw(Get(error), <<>>), None))
    /\ pc' = "responded"
    /\ UNCHANGED <<now, caller, callVars, body, usage, ticket>>
    /\ UNCHANGED concVars

\* --------------------------------------------------------- lib/ticket.ts
HeaderTexts == {<<>>, <<"H">>}
TicketConfigs == [print : {TRUE}, header : Opt(HeaderTexts), footer : Opt(HeaderTexts)]
TicketNames == {<<>>, <<"a", " ", "B">>}

\* Date.prototype.toLocaleDateString('fr')
toLocaleDateString(d) == <<"le", d.date>>

getTicketHtml(name, date_of_birth, config) ==
    IF ~IsSome(config)
    THEN Throw(NewError("TypeError", "Cannot read properties of undefined"), <<>>)
    ELSE LET c == Get(config)
             header == IF IsSome(c.header)
                       THEN <<[tag |-> "header", text |-> Get(c.header)]>> ELSE <<>>
             footer == IF IsSome(c.footer)
                       THEN <<[tag |-> "footer", text |-> Get(c.footer)]>> ELSE <<>>
         IN Ok(header
               \o <<[tag |-> "name", text |-> name],
                    [tag |-> "date_of_birth", text |-> date_of_birth]>>
               \o footer, <<>>)

\* printTicket up to the registration of the onload callback.
printTicket(name, date_of_birth, config) ==
    /\ ticket' = [NoTicket EXCEPT
                    !.args = Some([name |-> name, date_of_birth |-> date_of_birth,
                                   config |-> config]),
                    !.opened = TRUE]
    /\ pc' = "printing"

\* A call of printTicket with a ticket configuration.
CallPrintTicket ==
    /\ pc = "idle"
    /\ \E name \in TicketNames, d \in Time, config \in Opt(TicketConfigs) :
          printTicket(name, toLocaleDateString(Date(d)), config)
    /\ UNCHANGED <<now, caller, callVars, apiVars, usage>>
    /\ UNCHANGED concVars

\* printingWindow.onload
Onload ==
    /\ pc = "printing"
    /\ LET a == Get(ticket.args)
           r == getTicketHtml(a.name, a.date_of_birth, a.config)
       IN \/ /\ Failed(r)
             /\ ticket' = [ticket EXCEPT !.title = Some("Sanipasse impression"),
                                         !.thrown = r.err]
             /\ pc' = "printFailed"
          \/ /\ ~Failed(r)
             /\ ticket' = [ticket EXCEPT !.title = Some("Sanipasse impression"),
                                         !.html = r.val,
                                         !.printed = TRUE,
                                         !.closed = TRUE]
             /\ pc' = "printed"
    /\ UNCHANGED <<now, caller, callVars, apiVars, usage>>
    /\ UNCHANGED concVars

\* ------------------------------------------------ routes/_Certificate.svelte
\* afterUpdate of the component showing info: print when there is no error.
AfterUpdate ==
    /\ pc = "done"
    /\ caller = "ui"
    /\ \E problem \in Problems, allreadyPrinted \in BOOLEAN :
        \/ /\ IsSome(problem)
           /\ pc' = "shown"
           /\ UNCHANGED ticket
        \/ /\ ~IsSome(problem)
           /\ allreadyPrinted
           /\ pc' = "shown"
           /\ UNCHANGED ticket
        \/ /\ ~IsSome(problem)
           /\ ~allreadyPrinted
           /\ printTicket(toLocaleLowerCase(Get(info).first_name) \o <<" ">>
                             \o Get(info).last_name,
                          toLocaleDateString(Get(info).date_of_birth),
                          None)
    /\ UNCHANGED <<now, caller, callVars, apiVars, usage>>
    /\ UNCHANGED concVars

\* The call is over: the next one starts from a fresh state.
Return ==
    /\ \/ pc \in {"responded", "shown", "printed", "printFailed"}
       \/ pc \in {"done", "error"} /\ caller = "parse"
       \/ pc = "error" /\ caller = "ui"
    /\ pc' = "idle"
    /\ caller' = "none"
    /\ doc' = None
    /\ rawCoseData' = None
    /\ unsafe_dgc' = None
    /\ found' = None
    /\ dgc' = None
    /\ info' = None
    /\ error' = None
    /\ steps' = <<>>
    /\ tClaims' = None
    /\ tKey' = None
    /\ body' = None
    /\ response' = None
    /\ ticket' = NoTicket
    /\ UNCHANGED <<now, usage>>
    /\ UNCHANGED concVars

Next ==
    \/ Tick
    \/ CallParse
    \/ Extract
    \/ Decode
    \/ Claims
    \/ FindKey
    \/ VerifySignature
    \/ Normalize
    \/ Post
    \/ parse_any
    \/ PostRespond
    \/ CallPrintTicket
    \/ Onload
    \/ AfterUpdate
    \/ Return

Spec == Init /\ [][Next]_vars

\* ==================================================== concurrent requests
\* Several API requests in flight at once.  Every await of parse() is a point
\* where the event loop can run another request, so each stage is one step.
\* The clock does not move: the requests all run at the instant `now`.

\* Faulty variant: one Ajv instance kept at module level and used by every
\* call instead of a new one per call.
newAjv_ModuleLevel(h, p) == [id |-> 1, keywords |-> h.ajvs[1]]

\* const ajv = new Ajv(): a new instance, nothing registered on it.
newAjv(h, p) == [id |-> p, keywords |-> {}]

\* ajv.addFormat('date'), addFormat('date-time'), addKeyword('valueset-uri'):
\* addKeyword throws when the keyword is already defined on the instance.
ajvSetup(ajv) ==
    IF "keyword:valueset-uri" \in ajv.keywords
    THEN Throw(NewError("Error", "Keyword valueset-uri is already defined"),
               <<"cbor", "kid">>)
    ELSE Ok([ajv EXCEPT !.keywords = @ \cup {"format:date", "format:date-time",
                                             "keyword:valueset-uri"}],
            <<>>)

\* verifyDGC(dgc, rawCoseData, code), run without interruption at time t.
verifyDGC(u, raw, code, t, msg) ==
    LET c == verifyDGCClaims(u, t)
    IN IF Failed(c) THEN c
       ELSE LET k == findDGCPublicKey(u, t)
            IN IF Failed(k) THEN Throw(Get(k.err), c.ops \o k.ops)
               ELSE LET v == verify(raw, Get(k.val).public_key, msg)
                    IN IF Failed(v) THEN Throw(Get(v.err), c.ops \o k.ops \o v.ops)
                       ELSE Ok([hcert |-> u.hcert, kid |-> u.kid, issuer |-> u.issuer,
                                issuedAt |-> u.issuedAt, expiresAt |-> u.expiresAt,
                                certificate |-> Get(k.val).certificate,
                                code |-> code],
                               c.ops \o k.ops \o v.ops)

\* parse(doc), run alone and without interruption at time t.
parse(d, t, msg) ==
    LET e == extractCoseFromQRCode(d, msg)
    IN IF Failed(e) THEN e
       ELSE LET u == unsafeDGCFromCoseData(Get(e.val), msg)
            IN IF Failed(u) THEN Throw(Get(u.err), e.ops \o u.ops)
               ELSE LET g == verifyDGC(Get(u.val), Get(e.val), d, t, msg)
                    IN IF Failed(g) THEN Throw(Get(g.err), e.ops \o u.ops \o g.ops)
                       ELSE LET i == getCertificateInfo(Get(g.val))
                            IN IF Failed(i)
                               THEN Throw(Get(i.err), e.ops \o u.ops \o g.ops \o i.ops)
                               ELSE Ok(Get(i.val), e.ops \o u.ops \o g.ops \o i.ops)

\* Request p is being handled.
InFlight(p) == calls[p].pc \notin {"idle", "responded"}

\* A stage of request p threw: its parse rejects with that error.
CReject(p, e) == calls' = [calls EXCEPT ![p].pc = "error", ![p].error = e]

\* post: an accepted key, the usage record, then parse_any(code) -> parse(code)
CPost(p) ==
    /\ calls[p].pc = "idle"
    /\ \E d \in DocsConc, key \in ACCEPTED_KEYS :
        /\ startsWith(d, DGC_PREFIX)
        /\ calls' = [calls EXCEPT ![p].pc = "extract", ![p].doc = Some(d)]
    /\ heap' = [heap EXCEPT !.usage = @ + 1]
    /\ overlapped' = (overlapped \/ \E q \in Procs \ {p} : InFlight(q))
    /\ UNCHANGED <<now, seqVars>>

\* const rawCoseData = await extractCoseFromQRCode(doc)
CExtract(p) ==
    /\ calls[p].pc = "extract"
    /\ \E msg \in LibMessages :
        LET r == extractCoseFromQRCode(Get(calls[p].doc), msg)
        IN IF Failed(r) THEN CReject(p, r.err)
           ELSE calls' = [calls EXCEPT ![p].pc = "decode", ![p].rawCoseData = r.val]
    /\ UNCHANGED <<now, seqVars, heap, overlapped>>

\* const unsafe_dgc = await unsafeDGCFromCoseData(rawCoseData): the Ajv
\* instance is created and set up when the function gets to the schema.
CDecode(p) ==
    /\ calls[p].pc = "decode"
    /\ \E msg \in LibMessages :
        LET r == unsafeDGCFromCoseData(Get(calls[p].rawCoseData), msg)
            ajv == newAjv(heap, p)
            setup == ajvSetup(ajv)
        IN IF "schema" \notin {r.ops[i] : i \in 1..Len(r.ops)}
           THEN /\ CReject(p, r.err)
                /\ UNCHANGED heap
           ELSE IF Failed(setup)
           THEN /\ CReject(p, setup.err)
                /\ UNCHANGED heap
           ELSE /\ heap' = [heap EXCEPT !.ajvs[ajv.id] = Get(setup.val).keywords]
                /\ IF Failed(r) THEN CReject(p, r.err)
                   ELSE calls' = [calls EXCEPT ![p].pc = "claims",
                                               ![p].unsafe_dgc = r.val]
    /\ UNCHANGED <<now, seqVars, overlapped>>

\* verifyDGC: await verifyDGCClaims(dgc)
CClaims(p) ==
    /\ calls[p].pc = "claims"
    /\ LET r == verifyDGCClaims(Get(calls[p].unsafe_dgc), now)
       IN IF Failed(r) THEN CReject(p, r.err)
          ELSE calls' = [calls EXCEPT ![p].pc = "findKey"]
    /\ UNCHANGED <<now, seqVars, heap, overlapped>>

\* verifyDGC: const { certificate, public_key } = await findDGCPublicKey(dgc)
CFindKey(p) ==
    /\ calls[p].pc = "findKey"
    /\ LET r == findDGCPublicKey(Get(calls[p].unsafe_dgc), now)
       IN IF Failed(r) THEN CReject(p, r.err)
          ELSE calls' = [calls EXCEPT ![p].pc = "verify", ![p].found = r.val]
    /\ UNCHANGED <<now, seqVars, heap, overlapped>>

\* verifyDGC: await verify(rawCoseData, { key: public_key });
\*            return { ...dgc, certificate, code }
CVerify(p) ==
    /\ calls[p].pc = "verify"
    /\ \E msg \in LibMessages :
        LET c == calls[p]
            r == verify(Get(c.rawCoseData), Get(c.found).public_key, msg)
            u == Get(c.unsafe_dgc)
        IN IF Failed(r) THEN CReject(p, r.err)
           ELSE calls' = [calls EXCEPT
                    ![p].pc = "normalize",
                    ![p].dgc = Some([hcert |-> u.hcert, kid |-> u.kid,
                                     issuer |-> u.issuer, issuedAt |-> u.issuedAt,
                                     expiresAt |-> u.expiresAt,
                                     certificate |-> Get(c.found).certificate,
                                     code |-> Get(c.doc)])]
    /\ UNCHANGED <<now, seqVars, heap, overlapped>>

\* return getCertificateInfo(dgc)
CNormalize(p) ==
    /\ calls[p].pc = "normalize"
    /\ LET r == getCertificateInfo(Get(calls[p].dgc))
       IN IF Failed(r) THEN CReject(p, r.err)
          ELSE calls' = [calls EXCEPT ![p].pc = "done", ![p].info = r.val]
    /\ UNCHANGED <<now, seqVars, heap, overlapped>>

\* The handler after parse_any settled (lines 43-55).
CRespond(p) ==
    /\ \/ /\ calls[p].pc = "done"
          /\ \E problem \in Problems :
                calls' = [calls EXCEPT
                    ![p].pc = "responded",
                    ![p].response = Some(postBody(Ok(Get(calls[p].info), <<>>), problem))]
       \/ /\ calls[p].pc = "error"
          /\ calls' = [calls EXCEPT
                    ![p].pc = "responded",
                    ![p].response = Some(postBody(Throw(Get(calls[p].error), <<>>), None))]
    /\ UNCHANGED <<now, seqVars, heap, overlapped>>

Post_c == \E p \in Procs : CPost(p)
Extract_c == \E p \in Procs : CExtract(p)
Decode_c == \E p \in Procs : CDecode(p)
Claims_c == \E p \in Procs : CClaims(p)
FindKey_c == \E p \in Procs : CFindKey(p)
VerifySignature_c == \E p \in Procs : CVerify(p)
Normalize_c == \E p \in Procs : CNormalize(p)
PostRespond_c == \E p \in Procs : CRespond(p)

\* The server at any instant of the modelled period, no request received yet.
CInit ==
    /\ now \in Time
    /\ calls = [p \in Procs |-> IdleCall]
    /\ heap = HeapInit
    /\ overlapped = FALSE
    /\ pc = "idle"
    /\ caller = "none"
    /\ doc = None
    /\ rawCoseData = None
    /\ unsafe_dgc = None
    /\ found = None
    /\ dgc = None
    /\ info = None
    /\ error = None
    /\ steps = <<>>
    /\ tClaims = None
    /\ tKey = None
    /\ body = None
    /\ response = None
    /\ usage = 0
    /\ ticket = NoTicket

CNext ==
    \/ Post_c
    \/ Extract_c
    \/ Decode_c
    \/ Claims_c
    \/ FindKey_c
    \/ VerifySignature_c
    \/ Normalize_c
    \/ PostRespond_c

SpecConc == CInit /\ [][CNext]_vars

\* ================================================================ claims
Range(q) == {q[i] : i \in 1..Len(q)}

\* The running call went through parse() of the DGC module.
InParse == steps # <<>>

\* parse() rejected.
ParseRejected == pc = "error" /\ InParse

\* parse() resolved with a record.
ParseResolved == IsSome(info) /\ Get(info).source.format = "dgc"

ErrorClass == IF IsSome(error) THEN Get(error).class ELSE "none"

\* The COSE structure carried by the document.
Cose == Get(doc).bytes.data

\* The signature of the document was made by the holder of the certificate
\* named by its key identifier, over its current headers and payload.
SignatureGenuine ==
    /\ IsSome(Cose.phdrs.kid)
    /\ toBase64(Get(Cose.phdrs.kid)) \in DOMAIN DCCCerts
    /\ Cose.signers.key = DCCCerts[toBase64(Get(Cose.phdrs.kid))].publicKey
    /\ Cose.signers.over.payload = Cose.payload
    /\ Cose.signers.over.phdrs = Cose.phdrs

\* Every check of the pipeline succeeded for the running call.
AllChecksPassed ==
    /\ Get(doc).head = "HC1:"
    /\ Get(doc).valid45
    /\ Cose.shape = "array4"
    /\ SignatureGenuine
    /\ IsSome(tKey)
    /\ DCCCerts[toBase64(Get(Cose.phdrs.kid))].notBefore <= Get(tKey)
    /\ Get(tKey) <= DCCCerts[toBase64(Get(Cose.phdrs.kid))].notAfter
    /\ IsSome(tClaims)
    /\ IsSome(unsafe_dgc)
    /\ ~(IsSome(Get(unsafe_dgc).issuedAt) /\ Get(tClaims) < Get(Get(unsafe_dgc).issuedAt))
    /\ ~(IsSome(Get(unsafe_dgc).expiresAt) /\ Get(Get(unsafe_dgc).expiresAt) < Get(tClaims))
    /\ IsSome(Cose.payload.hcert)
    /\ IsSome(Get(Cose.payload.hcert).nam)
    /\ IsSome(Get(Get(Cose.payload.hcert).nam).fnt)
    /\ IsSome(Get(Cose.payload.hcert).dob)

\* C1: parse returns a certificate record only when every check succeeded:
\* a verified certificate (DGC with certificate and code) or a record exists
\* only if the key lookup, the validity window of the signing certificate,
\* the signature check, the claims check and the schema check all succeeded;
\* otherwise the call ends in an error and no record; a document whose
\* signature is not genuine is never accepted.
C1_VerifiedOnlyAfterAllChecks ==
    /\ IsSome(dgc) => AllChecksPassed /\ Get(dgc).code = Get(doc)
    /\ ParseResolved => IsSome(dgc) /\ error = None
    /\ (pc \in {"done", "error"} /\ InParse /\ ~AllChecksPassed) =>
            pc = "error" /\ IsSome(error) /\ info = None /\ dgc = None
    /\ (InParse /\ ~SignatureGenuine) => info = None /\ dgc = None

\* C1 witness: parse resolved with a record for a verified document.
C1_Witness ==
    /\ pc = "done"
    /\ caller = "parse"
    /\ ParseResolved
    /\ IsSome(dgc)
    /\ "signature" \in Range(steps)

\* C2: a document whose key identifier is absent from the trust store fails
\* with the unknown-signer error whatever the rest of the document is.
C2_UnknownSignerWhateverTheRest ==
    (/\ pc \in {"done", "error"}
     /\ InParse
     /\ IsSome(rawCoseData)
     /\ Cose.shape = "array4"
     /\ IsSome(Cose.phdrs.kid)
     /\ toBase64(Get(Cose.phdrs.kid)) \notin DOMAIN DCCCerts)
    => (pc = "error" /\ ErrorClass = "UnknownKidError")

\* C3: the claims check fails with the issued-in-future error exactly when
\* issued_at is set and now < issued_at; otherwise with the expired error
\* exactly when expires_at is set and expires_at < now; otherwise it
\* succeeds; when both hold the issued-in-future error is reported.
C3_ClaimsCheck ==
    IsSome(tClaims) =>
        LET u == Get(unsafe_dgc)
            t == Get(tClaims)
            future == IsSome(u.issuedAt) /\ t < Get(u.issuedAt)
            expired == IsSome(u.expiresAt) /\ Get(u.expiresAt) < t
        IN /\ future => ErrorClass = "DgcIssuedInFutureError"
           /\ (~future /\ expired) => ErrorClass = "ExpiredDgcError"
           /\ (~future /\ ~expired) =>
                 /\ ErrorClass \notin {"DgcIssuedInFutureError", "ExpiredDgcError"}
                 /\ pc = "findKey" \/ "lookup" \in Range(steps)

\* C3 witness: both bounds are violated and the issued-in-future error is
\* the one reported.
C3_Witness ==
    /\ pc = "error"
    /\ IsSome(tClaims)
    /\ IsSome(Get(unsafe_dgc).issuedAt)
    /\ Get(tClaims) < Get(Get(unsafe_dgc).issuedAt)
    /\ IsSome(Get(unsafe_dgc).expiresAt)
    /\ Get(Get(unsafe_dgc).expiresAt) < Get(tClaims)
    /\ ErrorClass = "DgcIssuedInFutureError"

\* The error classes of the module that name a kind of failure, and the
\* kinds of the taxonomy that have no class of their own in the module.
TypedKinds ==
    {"DgcIssuedInFutureError", "ExpiredDgcError", "UnknownKidError",
     "InvalidCertificateError", "UnrecognizedFormatError", "MalformedInputError",
     "SchemaValidationError", "InvalidSignatureError", "UnsupportedCertificateError"}

\* C4: every failure of parse is one of the typed error kinds, never a
\* generic error.
C4_EveryFailureTyped ==
    (IsSome(error) /\ InParse) => ErrorClass \in TypedKinds

NonEmptyList(l) == IsSome(l) /\ Len(Get(l)) > 0

\* C5: the record's type is that of the first non-empty list in the order
\* vaccination, test, recovery; with all three empty or absent the
\* normalizer fails instead of returning a record.  (The kind of that
\* failure is left to C4.)
C5_TypeFromFirstNonEmptyList ==
    ("normalize" \in Range(steps)) =>
        LET h == Get(dgc).hcert
        IN /\ NonEmptyList(h.v) =>
                 ParseResolved /\ Get(info).type = "vaccination"
           /\ (~NonEmptyList(h.v) /\ NonEmptyList(h.t)) =>
                 ParseResolved /\ Get(info).type = "test"
           /\ (~NonEmptyList(h.v) /\ ~NonEmptyList(h.t) /\ NonEmptyList(h.r)) =>
                 ParseResolved /\ Get(info).type = "recovery"
           /\ (~NonEmptyList(h.v) /\ ~NonEmptyList(h.t) /\ ~NonEmptyList(h.r)) =>
                 info = None /\ IsSome(error)

\* s with every '<' replaced by a space.
Unfilled(s) == [i \in 1..Len(s) |-> IF s[i] = "<" THEN " " ELSE s[i]]

\* The name the claim expects: the primary field when it is non-empty,
\* otherwise the transliterated field without fillers.
ExpectedName(primary, translit) ==
    IF IsSome(primary) /\ Len(Get(primary)) > 0 THEN Get(primary)
    ELSE IF IsSome(translit) THEN Unfilled(Get(translit)) ELSE <<>>

\* C6: every record parse resolves with has a non-empty first_name and a
\* non-empty last_name, each the primary name field when it is non-empty,
\* otherwise the transliterated field with every '<' replaced by a space.
C6_NamesNonEmpty ==
    ParseResolved =>
        LET nam == Get(Get(dgc).hcert.nam)
        IN /\ Len(Get(info).first_name) > 0
           /\ Len(Get(info).last_name) > 0
           /\ Len(ExpectedName(nam.gn, nam.gnt)) > 0 =>
                 Get(info).first_name = ExpectedName(nam.gn, nam.gnt)
           /\ Len(ExpectedName(nam.fn, nam.fnt)) > 0 =>
                 Get(info).last_name = ExpectedName(nam.fn, nam.fnt)

\* C7: the API answers validated = true only when the verification returned
\* a record without raising and findCertificateError reported no problem.
C7_ValidatedOnlyWhenVerified ==
    (IsSome(response) /\ Get(response).validated = Some(TRUE)) =>
        /\ IsSome(info)
        /\ error = None
        /\ Get(response).error = None

\* C8: a document without the prefix is rejected with the unrecognized
\* format error before any decoding step runs.
C8_PrefixRejectedBeforeDecoding ==
    (IsSome(error) /\ InParse /\ Get(doc).head # "HC1:") =>
        /\ ErrorClass = "UnrecognizedFormatError"
        /\ steps = <<"prefix">>
        /\ rawCoseData = None
        /\ unsafe_dgc = None

\* C9: printTicket prints a ticket with the name and the date of birth for
\* every combination of header and footer, also when no configuration is
\* passed; the header (footer) block is there exactly when a header (footer)
\* text is supplied.
C9_TicketPrinted ==
    (pc \in {"printed", "printFailed"}) =>
        LET a == Get(ticket.args)
            html == Get(ticket.html)
            Has(tag) == \E i \in 1..Len(html) : html[i].tag = tag
            Supplied(f) == IsSome(a.config) /\ IsSome(Get(a.config)[f])
        IN /\ ticket.printed
           /\ IsSome(ticket.html)
           /\ \E i \in 1..Len(html) : html[i].tag = "name" /\ html[i].text = a.name
           /\ \E i \in 1..Len(html) :
                 html[i].tag = "date_of_birth" /\ html[i].text = a.date_of_birth
           /\ Has("header") <=> Supplied("header")
           /\ Has("footer") <=> Supplied("footer")

\* The stage of an operation, numbered in the order the claim gives:
\* transport decode, envelope decode, trust-store lookup and signature,
\* claims, schema, normalization.
StageRank(op) ==
    CASE op \in {"prefix", "base45", "inflate"} -> 1
      [] op \in {"cbor", "kid"} -> 2
      [] op \in {"lookup", "window", "signature"} -> 3
      [] op = "claims" -> 4
      [] op = "schema" -> 5
      [] OTHER -> 6

\* C10: the stages run in the order transport decode, envelope decode,
\* trust-store lookup and signature verification, claims, schema,
\* normalization, and the error surfaced is that of the earliest failing
\* stage: a document with an invalid signature and a past expires_at reports
\* the signature error.
C10_StageOrder ==
    /\ \A i, j \in 1..Len(steps) : i < j => StageRank(steps[i]) <= StageRank(steps[j])
    /\ (/\ IsSome(error) /\ IsSome(tClaims)
        /\ Cose.phdrs.kid = Some("rawA")
        /\ ~SignatureGenuine
        /\ IsSome(Get(unsafe_dgc).expiresAt)
        /\ Get(Get(unsafe_dgc).expiresAt) < Get(tClaims))
       => ("signature" \in Range(steps) /\ ErrorClass = "Error")

\* C11: in the decoded record issuedAt is null exactly when claim 6 is absent
\* from the payload and expiresAt is null exactly when claim 4 is absent; a
\* claim that is present keeps its value, epoch 0 included, so that a present
\* expires_at in the past is enforced by the claims check.
C11_AbsentIffNull ==
    IsSome(unsafe_dgc) =>
        /\ Get(unsafe_dgc).issuedAt = Cose.payload.iat
        /\ Get(unsafe_dgc).expiresAt = Cose.payload.exp
        /\ (IsSome(tClaims) /\ IsSome(Cose.payload.exp)
            /\ Get(Cose.payload.exp) < Get(tClaims))
           => ErrorClass \in {"ExpiredDgcError", "DgcIssuedInFutureError"}

Alone(p) == {parse(Get(calls[p].doc), now, msg) : msg \in LibMessages}

\* C13: whatever the interleaving of the concurrent requests, every request
\* whose parse settled holds the record or the error parse gives for its
\* document when run alone at the same instant, its response is the one the
\* handler builds from that outcome, and the trust store and the schema are
\* the ones the server started with.
C13_NoInterference ==
    /\ heap.certs = DCCCerts
    /\ heap.schema = HeapInit.schema
    /\ \A p \in Procs :
        calls[p].pc \in {"done", "error", "responded"} =>
            \E r \in Alone(p) :
                /\ calls[p].info = r.val
                /\ calls[p].error = r.err
                /\ calls[p].pc = "responded" =>
                       \E problem \in Problems :
                           calls[p].response = Some(postBody(r, problem))

\* Two requests overlapped, both went through the schema validation and both
\* were answered: one with a verified record, the other with a rejection.
C13_Witness ==
    /\ overlapped
    /\ calls[1].pc = "responded"
    /\ calls[2].pc = "responded"
    /\ IsSome(calls[1].info)
    /\ Get(calls[1].response).validated = Some(TRUE)
    /\ IsSome(calls[1].unsafe_dgc)
    /\ IsSome(calls[2].unsafe_dgc)
    /\ IsSome(calls[2].error)
    /\ Get(calls[2].response).validated = Some(FALSE)
    /\ heap.usage = 2

====
